---------------------------- MODULE Spec2Model ----------------------------
(***************************************************************************)
(* Model of detekt.WhisperStream: the line reconstruction, the readiness   *)
(* and activation gates, the noise filter / tokenizer and the              *)
(* end-of-utterance rule, driven by the poll loop of ask().                *)
(*                                                                         *)
(* Text is a sequence of one-character strings.  The control characters    *)
(* are written as named atoms (CR, ESC, LF, TAB).                          *)
(***************************************************************************)
EXTENDS Integers, Sequences, FiniteSets, TLC

CR  == "<CR>"
ESC == "<ESC>"
LF  == "<LF>"
TAB == "<TAB>"

----------------------------------------------------------------------------
(* Python str primitives, on sequences of characters.                      *)

UpperLetters ==
    <<"A","B","C","D","E","F","G","H","I","J","K","L","M",
      "N","O","P","Q","R","S","T","U","V","W","X","Y","Z">>

LowerLetters ==
    <<"a","b","c","d","e","f","g","h","i","j","k","l","m",
      "n","o","p","q","r","s","t","u","v","w","x","y","z">>

Digits == {"0","1","2","3","4","5","6","7","8","9"}

Range(f) == {f[i] : i \in DOMAIN f}

UpperSet == Range(UpperLetters)

LowerSet == Range(LowerLetters)

AlnumChars == UpperSet \cup LowerSet \cup Digits

\* str.lower() on one upper-case letter
LowerMap == [c \in UpperSet |-> LowerLetters[CHOOSE i \in 1..26 : UpperLetters[i] = c]]

\* str.upper() on one lower-case letter
UpperMap == [c \in LowerSet |-> UpperLetters[CHOOSE i \in 1..26 : LowerLetters[i] = c]]

\* str.lower() on one character
LowerChar(c) == IF c \in UpperSet THEN LowerMap[c] ELSE c

\* str.upper() on one character
UpperChar(c) == IF c \in LowerSet THEN UpperMap[c] ELSE c

\* str.lower()
Lower(s) == [i \in 1..Len(s) |-> LowerChar(s[i])]

\* str.upper()
Upper(s) == [i \in 1..Len(s) |-> UpperChar(s[i])]

\* str.isalnum() on one character
IsAlnum(c) == c \in AlnumChars

\* the characters str.strip() removes
SpaceChars == {" ", CR, LF, TAB}

IsSpace(c) == c \in SpaceChars

\* does p occur in s at position i
MatchAt(s, p, i) ==
    /\ i >= 1
    /\ i + Len(p) - 1 <= Len(s)
    /\ \A k \in 1..Len(p) : s[i + k - 1] = p[k]

\* str.find(p) + 1: position of the first occurrence, 0 when there is none
Find(s, p) ==
    LET I == {i \in 1..(Len(s) - Len(p) + 1) : MatchAt(s, p, i)}
    IN  IF I = {} THEN 0 ELSE CHOOSE i \in I : \A j \in I : i <= j

\* str.rfind(p) + 1: position of the last occurrence, 0 when there is none
RFind(s, p) ==
    LET I == {i \in 1..(Len(s) - Len(p) + 1) : MatchAt(s, p, i)}
    IN  IF I = {} THEN 0 ELSE CHOOSE i \in I : \A j \in I : i >= j

\* p in s
Contains(s, p) == \E i \in 1..(Len(s) - Len(p) + 1) : MatchAt(s, p, i)

\* s.startswith(p)
StartsWith(s, p) == MatchAt(s, p, 1)

\* s.strip()
Strip(s) ==
    IF \A i \in 1..Len(s) : IsSpace(s[i]) THEN <<>>
    ELSE SubSeq(s,
                CHOOSE i \in 1..Len(s) :
                    ~IsSpace(s[i]) /\ \A j \in 1..(i - 1) : IsSpace(s[j]),
                CHOOSE i \in 1..Len(s) :
                    ~IsSpace(s[i]) /\ \A j \in (i + 1)..Len(s) : IsSpace(s[j]))

\* s.split(sep), sep non-empty: cut at the occurrences found left to right
RECURSIVE Split(_, _)
Split(s, sep) ==
    LET i == Find(s, sep)
    IN  IF i = 0 THEN <<s>>
        ELSE <<SubSeq(s, 1, i - 1)>> \o Split(SubSeq(s, i + Len(sep), Len(s)), sep)

\* s.replace(old, new), old non-empty
RECURSIVE Replace(_, _, _)
Replace(s, old, new) ==
    LET i == Find(s, old)
    IN  IF i = 0 THEN s
        ELSE SubSeq(s, 1, i - 1) \o new
                 \o Replace(SubSeq(s, i + Len(old), Len(s)), old, new)

\* sep.join(parts)
RECURSIVE Join(_, _)
Join(parts, sep) ==
    IF parts = <<>> THEN <<>>
    ELSE IF Len(parts) = 1 THEN parts[1]
    ELSE parts[1] \o sep \o Join(Tail(parts), sep)

----------------------------------------------------------------------------
(* Module constants of detekt.py and the literals of the loop.             *)

BLANK_AUDIO == <<"[","B","L","A","N","K","_","A","U","D","I","O","]">>

READY_MARKER ==
    <<"[","S","t","a","r","t"," ","s","p","e","a","k","i","n","g","]">>

KEYBOARD_CLICKING ==
    <<"(","k","e","y","b","o","a","r","d"," ","c","l","i","c","k","i","n","g",")">>

TYPING_SOUNDS ==
    <<"[","t","y","p","i","n","g"," ","s","o","u","n","d","s","]">>

SILENCE == <<"["," ","S","i","l","e","n","c","e"," ","]">>

WHOOSHING == <<"(","w","h","o","o","s","h","i","n","g",")">>

SIGHS == <<"(","s","i","g","h","s",")">>

\* the annotations replaced by BLANK_AUDIO, in the order of the chain
NoiseMarkers ==
    <<READY_MARKER, KEYBOARD_CLICKING, TYPING_SOUNDS, SILENCE, WHOOSHING, SIGHS>>

clear_code == <<ESC, "[", "2", "K">>

carriage_return == <<CR>>

\* the return value None, and a returned string
None == <<>>

Some(v) == <<v>>

----------------------------------------------------------------------------
(* normalize_word and the line reconstruction of _run_processing_loop.     *)

normalize_word(word) == Lower(SelectSeq(word, IsAlnum))

\* a variant of OverwritePart that writes over the old line and keeps what
\* the new text does not cover
OverwritePart_leftover(buf, part, i, starts) ==
    LET b1 == IF i = 1 /\ ~(Len(buf) = 0 /\ starts) THEN buf \o part ELSE buf
        last_r_in_buffer == RFind(b1, carriage_return)
    IN  IF i > 1 \/ starts
        THEN IF last_r_in_buffer # 0
             THEN SubSeq(b1, 1, last_r_in_buffer - 1) \o carriage_return \o part
                      \o SubSeq(b1, last_r_in_buffer + Len(part) + 1, Len(b1))
             ELSE carriage_return \o part
        ELSE b1

\* one pass of the loop over the pieces of a chunk split on carriage return
OverwritePart(buf, part, i, starts) ==
    LET b1 == IF i = 1 /\ ~(Len(buf) = 0 /\ starts) THEN buf \o part ELSE buf
        last_r_in_buffer == RFind(b1, carriage_return)
    IN  IF i > 1 \/ starts
        THEN IF last_r_in_buffer # 0
             THEN SubSeq(b1, 1, last_r_in_buffer - 1) \o carriage_return \o part
             ELSE carriage_return \o part
        ELSE b1

RECURSIVE OverwriteLoop(_, _, _, _)
OverwriteLoop(buf, parts, i, starts) ==
    IF i > Len(parts) THEN buf
    ELSE OverwriteLoop(OverwritePart(buf, parts[i], i, starts), parts, i + 1, starts)

\* a variant of ApplyClear that keeps the text before the first carriage
\* return of the content instead of the text after the last one
ApplyClear_firstpiece(buf, current_chunk) ==
    LET parts == Split(current_chunk, clear_code)
        effective_content == parts[Len(parts)]
        last_r_in_buffer == RFind(buf, carriage_return)
        base_buffer == IF last_r_in_buffer # 0
                       THEN SubSeq(buf, 1, last_r_in_buffer - 1)
                       ELSE <<>>
    IN  IF Contains(effective_content, carriage_return)
        THEN base_buffer \o carriage_return
                 \o Split(effective_content, carriage_return)[1]
        ELSE base_buffer \o effective_content

\* a variant of ApplyClear that keeps the old line
ApplyClear_appends(buf, current_chunk) ==
    LET parts == Split(current_chunk, clear_code)
        effective_content == parts[Len(parts)]
    IN  IF StartsWith(effective_content, carriage_return)
        THEN buf \o carriage_return
                 \o SubSeq(effective_content, 2, Len(effective_content))
        ELSE IF Contains(effective_content, carriage_return)
        THEN LET sub_parts == Split(effective_content, carriage_return)
             IN  buf \o carriage_return \o sub_parts[Len(sub_parts)]
        ELSE buf \o effective_content

\* the branch taken when the chunk holds the line-clear code
ApplyClear(buf, current_chunk) ==
    LET parts == Split(current_chunk, clear_code)
        effective_content == parts[Len(parts)]
        last_r_in_buffer == RFind(buf, carriage_return)
        base_buffer == IF last_r_in_buffer # 0
                       THEN SubSeq(buf, 1, last_r_in_buffer - 1)
                       ELSE <<>>
    IN  IF StartsWith(effective_content, carriage_return)
        THEN base_buffer \o carriage_return
                 \o SubSeq(effective_content, 2, Len(effective_content))
        ELSE IF Contains(effective_content, carriage_return)
        THEN LET sub_parts == Split(effective_content, carriage_return)
             IN  base_buffer \o carriage_return \o sub_parts[Len(sub_parts)]
        ELSE base_buffer \o effective_content

\* a variant of ApplyCarriageReturn that stops after the first overwrite
ApplyCarriageReturn_firstpiece(buf, current_chunk) ==
    OverwriteLoop(buf, SubSeq(Split(current_chunk, carriage_return), 1, 2), 1,
                  StartsWith(current_chunk, carriage_return))

\* the branch taken when the chunk holds a carriage return and no clear code
ApplyCarriageReturn(buf, current_chunk) ==
    OverwriteLoop(buf, Split(current_chunk, carriage_return), 1,
                  StartsWith(current_chunk, carriage_return))

\* lines 121-125: the text before the last carriage return of the buffer
LineStart(buf) ==
    IF RFind(buf, carriage_return) # 0
    THEN SubSeq(buf, 1, RFind(buf, carriage_return) - 1)
    ELSE <<>>

\* the text after the last carriage return of the buffer
CurrentLine(buf) == SubSeq(buf, RFind(buf, carriage_return) + 1, Len(buf))

\* a variant of Reconstruct that keeps the newlines of the line
Reconstruct_keepsnewline(buf, char) ==
    IF Contains(char, clear_code)
    THEN ApplyClear(buf, char)
    ELSE IF Contains(char, carriage_return)
    THEN ApplyCarriageReturn(buf, char)
    ELSE buf \o char

\* the new _char_buffer after the line `char` was read
Reconstruct(buf, char) ==
    LET current_chunk == Replace(char, <<LF>>, <<>>)
    IN  IF Contains(current_chunk, clear_code)
        THEN ApplyClear(buf, current_chunk)
        ELSE IF Contains(current_chunk, carriage_return)
        THEN ApplyCarriageReturn(buf, current_chunk)
        ELSE buf \o current_chunk

----------------------------------------------------------------------------
(* _process_buffer and _handle_words.                                      *)

\* a variant of ReadyMarkerFound that ignores the letter case
ReadyMarkerFound_anycase(b) == Contains(Lower(b), Lower(READY_MARKER))

\* line 193: the ready marker is looked for in bob
ReadyMarkerFound(b) == Contains(b, READY_MARKER)

\* a variant of NotReadyReturn that lets the text through before readiness
NotReadyReturn_skipped(ready) == FALSE

\* line 198: nothing is processed before the ready marker was seen
NotReadyReturn(ready) == ~ready

\* a variant of PhraseFound that compares the letter case too
PhraseFound_exactcase(b, phrase) == Contains(b, phrase)

\* line 201: the activation phrase is looked for in the lower-cased bob
PhraseFound(b, phrase) == Contains(Lower(b), phrase)

\* line 204: what is left of bob after the activation phrase was found
GateSuffix(b, phrase) ==
    LET pieces == Split(Lower(b), phrase)
    IN  pieces[Len(pieces)]

\* lines 206-211: the chain of replacements
RECURSIVE ReplaceChain(_, _)
ReplaceChain(b, k) ==
    IF k > Len(NoiseMarkers) THEN b
    ELSE ReplaceChain(Replace(b, NoiseMarkers[k], BLANK_AUDIO), k + 1)

\* a variant of NoiseFilter that sets the Sentinel apart with spaces
NoiseFilter_padded(b) ==
    Replace(ReplaceChain(b, 1), BLANK_AUDIO, <<" ">> \o BLANK_AUDIO \o <<" ">>)

NoiseFilter(b) == ReplaceChain(b, 1)

WordKept(w) == normalize_word(w) # <<>>

\* line 213: the words of bob
Tokenize(b) == SelectSeq(Split(b, <<" ">>), WordKept)

NotBlank(w) == w # BLANK_AUDIO

\* a variant of BoundaryFires that asks for two trailing Sentinels
BoundaryFires_strict(words) ==
    /\ Len(words) >= 2
    /\ words[Len(words)] = BLANK_AUDIO
    /\ words[Len(words) - 1] = BLANK_AUDIO
    /\ \E k \in 1..Len(words) : words[k] # BLANK_AUDIO /\ words[k] # <<>>

\* line 220: the end-of-utterance rule
BoundaryFires(words) ==
    /\ Len(words) >= 2
    /\ words[Len(words)] = BLANK_AUDIO
    /\ \E k \in 1..Len(words) : words[k] # BLANK_AUDIO /\ words[k] # <<>>

\* the new bob and the value returned (with the list it was given)
_handle_words(b, words) ==
    IF BoundaryFires(words)
    THEN [bob |-> <<>>, g |-> Some(Join(SelectSeq(words, NotBlank), <<" ">>)),
          words |-> words]
    ELSE [bob |-> b, g |-> None, words |-> words]

\* lines 213-214, on the filtered bob
HandleFiltered(b) == _handle_words(b, Tokenize(b))

\* a variant of Gate that looks for the phrase again after activation
Gate_rearmed(self) ==
    IF PhraseFound(self.bob, self.activation_phrase)
    THEN GateSuffix(self.bob, self.activation_phrase)
    ELSE self.bob

\* lines 200-205: bob after the activation gate
Gate(self) ==
    IF ~self.activated
    THEN GateSuffix(self.bob, self.activation_phrase)
    ELSE self.bob

\* self after lines 200-214, given the gated bob and what _handle_words gave
Processed(self, gated, r) ==
    [self  |-> [self EXCEPT !.activated = TRUE, !.bob = r.bob],
     g |-> r.g, gated |-> Some(gated), words |-> Some(r.words)]

\* lines 206-214
ProcessGated(self, gated) ==
    Processed(self, gated, HandleFiltered(NoiseFilter(gated)))

\* a variant of MarkReady that leaves the marker text in bob
MarkReady_keepsbob(self) ==
    [self  |-> [self EXCEPT !._ready = TRUE],
     g |-> None, gated |-> None, words |-> None]

\* lines 194-197: the ready marker was found
MarkReady(self) ==
    [self  |-> [self EXCEPT !._ready = TRUE, !.bob = <<>>],
     g |-> None, gated |-> None, words |-> None]

\* self after the call, the value returned, and what the call went through:
\* gated = bob after the activation gate, words = the list handed to
\* _handle_words (None when the call returned before)
_process_buffer(self) ==
    IF ReadyMarkerFound(self.bob) /\ ~self._ready
    THEN MarkReady(self)
    ELSE IF NotReadyReturn(self._ready)
    THEN [self |-> self, g |-> None, gated |-> None, words |-> None]
    ELSE IF ~self.activated /\ ~PhraseFound(self.bob, self.activation_phrase)
    THEN [self |-> self, g |-> None, gated |-> None, words |-> None]
    ELSE ProcessGated(self, Gate(self))

----------------------------------------------------------------------------
(* The object and its methods.                                             *)

\* __init__
WhisperStream(phrase, need) ==
    [activation_phrase |-> Lower(phrase),
     process           |-> "None",
     activated         |-> IF need THEN FALSE ELSE TRUE,
     _char_buffer      |-> <<>>,
     bob               |-> <<>>,
     _stopped          |-> FALSE,
     _ready            |-> FALSE]

\* a variant of stop that keeps the handle of the process it has ended
stop_keepshandle(self) ==
    IF self._stopped THEN self
    ELSE [self EXCEPT !._stopped = TRUE]

\* stop(): the flag is set; a running process is ended and its handle
\* cleared, the handle of an exited process is kept
stop(self) ==
    IF self._stopped THEN self
    ELSE IF self.process = "running"
    THEN [self EXCEPT !._stopped = TRUE, !.process = "None"]
    ELSE [self EXCEPT !._stopped = TRUE]

\* what stop() sends to the process: terminate(), and kill() when wait()
\* timed out (slow)
Signals(self, slow) ==
    IF self._stopped THEN <<>>
    ELSE IF self.process = "running"
    THEN IF slow THEN <<"terminate", "kill">> ELSE <<"terminate">>
    ELSE <<>>

\* lines 87-89: what the finally clause of ask() sends to the process
Finally(self, slow) == IF ~self._stopped THEN Signals(self, slow) ELSE <<>>

\* line 95: poll() gives an exit code
Exited(self) == [self EXCEPT !.process = "exited"]

\* a variant of AskStart that starts every session not ready
AskStart_resets(self) ==
    [self EXCEPT !._char_buffer = <<>>, !._stopped = FALSE, !.process = "running",
                 !._ready = FALSE]

\* ask() up to the entry of the loop
AskStart(self) ==
    [self EXCEPT !._char_buffer = <<>>, !._stopped = FALSE, !.process = "running"]

\* lines 235 and 250: by the time ask() returns the process may have exited
\* by itself (gone), and stop() then finds it so
AtReturn(self, gone) == IF gone THEN Exited(self) ELSE self

\* a variant of AskReturn without the finally clause
AskReturn_nofinally(self) == self

\* the return of ask(): the finally clause stops the stream
AskReturn(self) == IF ~self._stopped THEN stop(self) ELSE self

\* lines 66-68 and 82-89: Popen raises; the handle is set to None and the
\* finally clause stops the stream
AskFailed(self) ==
    AskReturn([self EXCEPT !._char_buffer = <<>>, !._stopped = FALSE,
                           !.process = "None"])

\* the words of bob that are not the Sentinel
RealWords(b) == SelectSeq(Tokenize(b), NotBlank)

\* a variant of LoopExit that hands back the words accumulated so far
LoopExit_flush(self) ==
    [self |-> AskReturn(self),
     g |-> IF RealWords(self.bob) # <<>>
           THEN Some(Join(RealWords(self.bob), <<" ">>)) ELSE None]

\* lines 94-96, 172-175 and 186-188: the process has exited or readline()
\* gave the empty string; the loop is left and ask() returns None
LoopExit(self) == [self |-> AskReturn(self), g |-> None]

\* a variant of LoopError that goes on with the loop
LoopError_continue(self) == [self |-> self, g |-> None]

\* lines 176-179 and 186-188: readline() raised; the loop is left and ask()
\* returns None
LoopError(self) == [self |-> AskReturn(self), g |-> None]

\* line 171: `if g`
Truthy(g) == g # None /\ g[1] # <<>>

\* lines 165-168: the line is stored and appended to bob
Appended(self, cb) ==
    [self EXCEPT !._char_buffer = cb, !.bob = self.bob \o <<" ">> \o Strip(cb)]

\* lines 170-171: the end of the pass, r being what _process_buffer gave
LoopReturn(r, bob_in) ==
    [self  |-> IF Truthy(r.g) THEN AskReturn(r.self) ELSE r.self,
     returned |-> Truthy(r.g), g |-> r.g, gated |-> r.gated, words |-> r.words,
     bob_in |-> bob_in]

LoopProcess(s1) == LoopReturn(_process_buffer(s1), s1.bob)

\* one pass of the loop in which a line was read
LoopRead(self, char) ==
    LoopProcess(Appended(self, Reconstruct(self._char_buffer, char)))

----------------------------------------------------------------------------
(* llm_agent.LLMAgent: the message history and sendUserMessage.  A JSON    *)
(* value is a record with a type field; "other" stands for a value of a    *)
(* type the code does not expect.                                          *)

\* written short; the code compares it and never looks inside
DEFAULT_SYSTEM_PROMPT == <<"You are a concise and helpful AI assistant.">>

THINK_START_TAG == <<"<","t","h","i","n","k",">">>

THINK_END_TAG == <<"<","/","t","h","i","n","k",">">>

Message(role, content) == [role |-> role, content |-> content]

\* _ensure_system_prompt: the default prompt is put first when the history
\* has no system message
EnsureSystemPrompt(messages) ==
    IF \E i \in 1..Len(messages) : messages[i].role = "system"
    THEN messages
    ELSE <<Message("system", DEFAULT_SYSTEM_PROMPT)>> \o messages

\* LLMAgent(history_file): the history is loaded from the file
LLMAgent(history) ==
    [messages     |-> EnsureSystemPrompt(history),
     history_file |-> EnsureSystemPrompt(history),
     ret          |-> None,
     called       |-> FALSE,
     user_message |-> <<>>,
     outcome      |-> [kind |-> "none"],
     before       |-> <<>>]

\* line 141: `not user_message or user_message.isspace()`
IsBlank(text) == \A i \in 1..Len(text) : IsSpace(text[i])

\* self.messages.pop()
Pop(messages) == SubSeq(messages, 1, Len(messages) - 1)

\* lines 180-196: the content without a leading <think> block
ThinkStrip(raw_content) ==
    IF StartsWith(raw_content, THINK_START_TAG)
         /\ Find(raw_content, THINK_END_TAG) # 0
    THEN Strip(SubSeq(raw_content,
                      Find(raw_content, THINK_END_TAG) + Len(THINK_END_TAG),
                      Len(raw_content)))
    ELSE raw_content

\* lines 175-198, message being choices[0].get("message")
MessageContent(message) ==
    IF message.type # "dict" THEN [raised |-> FALSE, content |-> <<>>]
    ELSE IF message.content.type = "other"
    THEN [raised |-> TRUE, content |-> <<>>]
    ELSE IF message.content.type = "str" /\ message.content.value # <<>>
    THEN [raised |-> FALSE,
          content |-> ThinkStrip(Strip(message.content.value))]
    ELSE [raised |-> FALSE, content |-> <<>>]

\* lines 172-200: assistant_message_content ("" for None), or the
\* AttributeError of a value that is not what the code takes it for
ExtractContent(response_data) ==
    IF response_data.choices.type = "list"
         /\ Len(response_data.choices.items) > 0
    THEN IF response_data.choices.items[1].type # "dict"
         THEN [raised |-> TRUE, content |-> <<>>]
         ELSE MessageContent(response_data.choices.items[1].message)
    ELSE [raised |-> FALSE, content |-> <<>>]

\* a variant of Failed that leaves the user message in the history
Failed_keeps(self, messages) ==
    [self EXCEPT !.messages = messages, !.history_file = messages,
                 !.ret = None]

\* lines 203-207 and 222-241: the user message is removed, the history
\* saved, None returned
Failed(self, messages) ==
    [self EXCEPT !.messages = Pop(messages), !.history_file = Pop(messages),
                 !.ret = None]

\* lines 242-249: any other exception
Unexpected(self, messages) ==
    IF messages # <<>> /\ messages[Len(messages)].role = "user"
    THEN Failed(self, messages)
    ELSE [self EXCEPT !.messages = messages, !.ret = None]

\* lines 209-220: the reply is appended, the history saved, the reply returned
Replied(self, messages, content) ==
    [self EXCEPT
        !.messages = Append(messages, Message("assistant", content)),
        !.history_file = Append(messages, Message("assistant", content)),
        !.ret = Some(content)]

\* lines 168-220, x being ExtractContent of the decoded response
Answered(self, messages, x) ==
    IF x.raised THEN Unexpected(self, messages)
    ELSE IF x.content = <<>> THEN Failed(self, messages)
    ELSE Replied(self, messages, x.content)

\* lines 151-249, messages being the history with the user message appended
Requested(self, messages, outcome) ==
    IF outcome.kind \in {"Timeout", "RequestException", "HTTPError",
                         "JSONDecodeError"}
    THEN Failed(self, messages)
    ELSE Answered(self, messages, ExtractContent(outcome.response_data))

\* sendUserMessage(user_message), outcome being what the request meets
sendUserMessage(self, user_message, outcome) ==
    IF IsBlank(user_message)
    THEN [self EXCEPT !.ret = None]
    ELSE Requested(self,
                   Append(self.messages, Message("user", user_message)),
                   outcome)

\* JSON values
Absent == [type |-> "absent"]

Other == [type |-> "other"]

Str(value) == [type |-> "str", value |-> value]

\* an element of "choices" and its "message"
Choice(message) == [type |-> "dict", message |-> message]

MessageDict(content) == [type |-> "dict", content |-> content]

List(items) == [type |-> "list", items |-> items]

----------------------------------------------------------------------------
(* whisper_stream.WhisperStream: the variant with a reader thread.  The    *)
(* reader's position is `thread`, the position of the main thread inside   *)
(* stop() is `main`.                                                       *)

\* whisper_stream.py line 136
max_buffer_chars == 1024

\* whisper_stream.WhisperStream(server_path, activation_phrase, ...)
ThreadedStream(phrase) ==
    [activation_phrase |-> Lower(phrase),
     process           |-> "None",
     _stop_event       |-> FALSE,
     activated         |-> FALSE,
     _output_buffer    |-> <<>>,
     thread            |-> "none",
     main              |-> "idle",
     line              |-> <<>>,
     streamed          |-> <<>>,
     activations       |-> 0,
     lines             |-> <<>>,
     nlines            |-> 0,
     late              |-> 0,
     after             |-> 0,
     error             |-> FALSE]

\* start(), lines 49-69: the session is reset and the reader thread started
ThreadedStart(self) ==
    [self EXCEPT !.activated = FALSE, !._output_buffer = <<>>,
                 !._stop_event = FALSE, !.process = "running",
                 !.thread = "event", !.line = <<>>, !.streamed = <<>>,
                 !.activations = 0, !.lines = <<>>, !.late = 0,
                 !.after = 0, !.error = FALSE]

\* lines 94-98: an exception in the loop is caught and the thread ends
Raised(self) == [self EXCEPT !.thread = "ended", !.error = TRUE]

\* a variant of LoopTest that does not look at the stop event
LoopTest_deaf(self) == [self EXCEPT !.thread = "process"]

\* line 80, `not self._stop_event.is_set()`
LoopTest(self) ==
    [self EXCEPT !.thread = IF self._stop_event THEN "exit_code" ELSE "process"]

\* line 80, `and self.process`
LoopProcessTest(self) ==
    [self EXCEPT !.thread = IF self.process = "None" THEN "exit_code" ELSE "poll"]

\* line 80, `and self.process.poll() is None`
LoopPoll(self) ==
    IF self.process = "None" THEN Raised(self)
    ELSE [self EXCEPT
            !.thread = IF self.process = "running" THEN "select" ELSE "exit_code"]

\* line 81: select() on self.process.stdout, readable or timed out
LoopSelect(self, readable) ==
    IF self.process = "None" THEN Raised(self)
    ELSE [self EXCEPT !.thread = IF readable THEN "readline" ELSE "event"]

\* lines 82-87: readline() gives a line, or "" at the end of the input
LoopReadline(self, line) ==
    IF self.process = "None" THEN Raised(self)
    ELSE IF line = <<>> THEN [self EXCEPT !.thread = "exit_code"]
    ELSE [self EXCEPT !.thread = "line", !.line = line,
                      !.nlines = self.nlines + 1,
                      !.late = IF self._stop_event THEN self.late + 1
                               ELSE self.late]

\* lines 136-138: the buffer is cut to its last max_buffer_chars characters
Truncated(buffer) ==
    IF Len(buffer) > max_buffer_chars
    THEN SubSeq(buffer, Len(buffer) - max_buffer_chars + 1, Len(buffer))
    ELSE buffer

\* a variant of Streaming that hands on the lower-case text
Streaming_lowercase(self, buffer, remaining_text) ==
    [self EXCEPT
        !.activated = TRUE,
        !.activations = self.activations + 1,
        !._output_buffer = <<>>,
        !.streamed = IF remaining_text # <<>>
                     THEN Append(self.streamed, Lower(remaining_text))
                     ELSE self.streamed]

\* lines 119-131: the phrase is in the buffer
Streaming(self, buffer, remaining_text) ==
    [self EXCEPT
        !.activated = TRUE,
        !.activations = self.activations + 1,
        !._output_buffer = <<>>,
        !.streamed = IF remaining_text # <<>>
                     THEN Append(self.streamed, remaining_text)
                     ELSE self.streamed]

\* lines 116-139, lower_buffer being the buffer in lower case
Searched(self, buffer, lower_buffer) ==
    IF Contains(lower_buffer, self.activation_phrase)
    THEN CHOOSE after \in
            {Streaming(self, buffer, remaining_text) : remaining_text \in
                {Strip(SubSeq(buffer,
                              Find(lower_buffer, self.activation_phrase)
                                  + Len(self.activation_phrase),
                              Len(buffer)))}} : TRUE
    ELSE [self EXCEPT !._output_buffer = Truncated(buffer)]

\* lines 113-139, buffer being _output_buffer + line + " "
Buffered(self, buffer) ==
    CHOOSE after \in
        {Searched(self, buffer, lower_buffer) : lower_buffer \in {Lower(buffer)}} :
        TRUE

\* lines 103-144, line being the line stripped
Stripped(self, line) ==
    IF line = <<>> THEN self
    ELSE IF ~self.activated
    THEN CHOOSE after \in
            {Buffered(self, buffer) : buffer \in
                {self._output_buffer \o line \o <<" ">>}} : TRUE
    ELSE [self EXCEPT !.streamed = Append(self.streamed, line)]

\* _process_line(line): each local of the method is computed once
_process_line(self, line) ==
    CHOOSE after \in {Stripped(self, stripped) : stripped \in {Strip(line)}} :
        TRUE

\* line 84: the line read is processed, and the loop goes round
LoopLine(self) ==
    [_process_line(self, self.line) EXCEPT
        !.thread = "event", !.line = <<>>,
        !.lines = Append(self.lines, self.line),
        !.after = IF self._stop_event THEN self.after + 1 ELSE self.after]

\* line 91, `if self.process`
ExitTest(self) ==
    [self EXCEPT !.thread = IF self.process = "None" THEN "ended" ELSE "exit_poll"]

\* line 91, `self.process.poll()`
ExitPoll(self) ==
    IF self.process = "None" THEN Raised(self)
    ELSE [self EXCEPT !.thread = "ended"]

\* stop(), lines 148-153: nothing is done unless the process runs
StopEvent(self) ==
    IF self.process # "running" THEN self
    ELSE [self EXCEPT !._stop_event = TRUE, !.main = "terminate"]

\* stop(), lines 155-172: the process is ended and the handle cleared
StopProcess(self) == [self EXCEPT !.process = "None", !.main = "join"]

\* stop(), lines 174-183: join(timeout=2) returns
StopJoin(self) == [self EXCEPT !.main = "idle"]

----------------------------------------------------------------------------
(* Bounds and the lines the transcription process may write.               *)

\* number of lines read by one object, over all its ask() calls
MaxReads == 3

\* the phrase handed to the constructor (test.py: ACTIVATION_PHRASE = "hi")
ConfigPhrases == {<<"H","i">>}

MainFeed ==
    { READY_MARKER \o <<LF>>,
      SIGHS,
      <<" ">> \o BLANK_AUDIO,
      <<"h","i"," ","T","h","e","r","e"," ">>,
      <<"o","l","d"," ",LF>>,
      <<CR,"h","e">>,
      clear_code \o <<CR,"h","e","y"," ">> \o SIGHS }

\* "...hi there friend " followed by one annotation
Scenario(annotation) ==
    <<".",".",".","h","i"," ","t","h","e","r","e"," ","f","r","i","e","n","d"," ">>
        \o annotation

ScenarioFeed == {READY_MARKER \o <<LF>>} \cup {Scenario(a) : a \in Range(NoiseMarkers)}

\* lines of a terminal that rewrites its line: plain text, carriage returns
\* and line-clear codes
LineFeed ==
    { <<"a">>,
      <<"b">>,
      <<"a","b">>,
      <<"c",LF>>,
      carriage_return,
      carriage_return \o <<"a","b">>,
      carriage_return \o <<"c">>,
      carriage_return \o <<"a","b">> \o carriage_return \o <<"c">>,
      <<"c">> \o carriage_return \o <<"a","b">>,
      clear_code,
      clear_code \o <<"a","b">>,
      <<"c">> \o carriage_return \o <<"a","b">> \o clear_code \o <<"c">>,
      clear_code \o carriage_return \o <<"a","b">>,
      clear_code \o <<"a","b">> \o carriage_return \o <<"c">>,
      clear_code \o carriage_return \o <<"a","b">> \o carriage_return \o <<"c">>,
      <<"a","b">> \o clear_code \o <<"c">> \o clear_code \o carriage_return \o <<"a","b">> }

\* test.py line 25
stop_commands ==
    { <<"s","t","o","p">>, <<"e","x","i","t">>, <<"q","u","i","t">>,
      <<"b","y","e">>, <<"g","o","o","d","b","y","e">>, <<"d","i","e">> }

\* test.py line 26: `text.lower().strip() in stop_commands`
IsStopCommand(text) == Strip(Lower(text)) \in stop_commands

\* the main script after the first pass through lines 61-74: the streamer
\* was built with need_r true, and need_r is now false
MainScript ==
    [pc |-> "ask", need_r |-> FALSE, shutdown |-> FALSE, handled |-> 0,
     sessions |-> 1]

\* the main script builds at most this many streamers
MaxSessions == 2

\* what the transcription process may write while the main script listens
ScriptFeed ==
    { READY_MARKER \o <<LF>>,
      <<" ","h","i"," ","s","t","o","p"," ">> \o SIGHS,
      <<" ","h","i"," ","t","h","e","r","e"," ">> \o SIGHS,
      <<" ","Q","u","i","t"," ">> \o SIGHS,
      <<" ","g","o"," ","o","n"," ">> \o SIGHS }

\* the history holds at most this many messages
MaxMessages == 5

\* lines read by the reader thread, over all its sessions
MaxLines == 3

\* what the transcription process may write while the reader thread runs
StreamFeed ==
    { <<" ",LF>>,
      <<"s","a","y"," ","H","i"," ","B","o","b"," ",LF>>,
      <<"H","I",LF>>,
      <<" ","G","o"," ","o","n",LF>> }

\* what the user may say to the agent
UserMessages == {<<>>, <<" ">>, <<"h","i">>, <<"g","o">>}

\* the "content" strings of a reply
Contents ==
    { <<>>,
      <<" ">>,
      <<" ","o","k"," ">>,
      THINK_START_TAG \o <<"t">> \o THINK_END_TAG,
      THINK_START_TAG \o <<"t">> \o THINK_END_TAG \o <<" ","o","k">>,
      THINK_START_TAG \o <<"t">> }

\* the decoded bodies of a reply
Bodies ==
    { [choices |-> Absent],
      [choices |-> Other],
      [choices |-> List(<<>>)],
      [choices |-> List(<<Other>>)],
      [choices |-> List(<<Choice(Absent)>>)],
      [choices |-> List(<<Choice(Other)>>)],
      [choices |-> List(<<Choice(MessageDict(Absent))>>)],
      [choices |-> List(<<Choice(MessageDict(Other))>>)] }
    \cup {[choices |-> List(<<Choice(MessageDict(Str(c)))>>)] : c \in Contents}

\* what requests.post, raise_for_status and response.json() may do
Outcomes ==
    {[kind |-> k] : k \in {"Timeout", "RequestException", "HTTPError",
                            "JSONDecodeError"}}
    \cup {[kind |-> "response", response_data |-> b] : b \in Bodies}

\* the letter cases of the phrase, as configured and as spoken
PhraseCases == {<<"h","i">>, <<"H","i">>, <<"H","I">>}

----------------------------------------------------------------------------
(* Observations kept beside the object, for stating the properties.        *)

\* the maximal alphanumeric runs of s
AlnumRuns(s) ==
    LET starts == {i \in 1..Len(s) :
                     IsAlnum(s[i]) /\ (i = 1 \/ ~IsAlnum(s[i - 1]))}
        EndOf(i) == CHOOSE j \in i..Len(s) :
                      /\ \A k \in i..j : IsAlnum(s[k])
                      /\ (j = Len(s) \/ ~IsAlnum(s[j + 1]))
    IN  {SubSeq(s, i, EndOf(i)) : i \in starts}

LowerAll(S) == {Lower(w) : w \in S}

\* text made of noise annotations, BLANK_AUDIO markers and whitespace only
RECURSIVE StripNoise(_, _)
StripNoise(s, k) ==
    IF k > Len(NoiseMarkers) THEN Replace(s, BLANK_AUDIO, <<>>)
    ELSE StripNoise(Replace(s, NoiseMarkers[k], <<>>), k + 1)

IsNotSpace(c) == ~IsSpace(c)

IsNoiseOnly(chunk) == SelectSeq(StripNoise(chunk, 1), IsNotSpace) = <<>>

NoIteration ==
    [op |-> "none", chunk |-> <<>>, ready_before |-> FALSE,
     activated_before |-> FALSE, cb_before |-> <<>>, bob_in |-> <<>>,
     gated |-> None, words |-> None, g |-> None, sent |-> <<>>,
     gone |-> FALSE]

\* the loop was left, or stop() called, without a pass
Left(op, sent) == [NoIteration EXCEPT !.op = op, !.sent = sent]

\* the loop was left and ask() returned, the process having exited or not
LeftGone(op, sent, gone) == [Left(op, sent) EXCEPT !.gone = gone]

\* the normalized words of a text that are not the Sentinel
RealNorm(b) == {normalize_word(w) : w \in Range(RealWords(b))}

IsNotLF(c) == c # LF

\* line 107: a text without its newlines
ChunkOf(char) == SelectSeq(char, IsNotLF)

\* lines 128-136: what the content E after the last clear code leaves on the
\* line: the rest after a leading carriage return, else the text after its
\* last carriage return
Remainder(E) ==
    IF E[1] = CR THEN SubSeq(E, 2, Len(E)) ELSE CurrentLine(E)

\* lines 114-116: the content of a chunk after its last line-clear code
AfterLastClear(chunk) ==
    SubSeq(chunk, RFind(chunk, clear_code) + Len(clear_code), Len(chunk))

\* a line with neither the line-clear code nor a carriage return
IsPlain(char) == ~Contains(char, clear_code) /\ ~Contains(char, carriage_return)

----------------------------------------------------------------------------
(* State.                                                                  *)

VARIABLES
    process,            \* self.process: "None", "running" or "exited"
    _stopped,           \* self._stopped
    _ready,             \* self._ready
    activated,          \* self.activated
    _char_buffer,       \* self._char_buffer
    bob,                \* self.bob
    activation_phrase,  \* self.activation_phrase
    need_activation,    \* the constructor's argument
    ret,                \* the value returned by the last ask() (None while it runs)
    feed,               \* the lines the transcription process may write
    nread,              \* lines read so far
    last,               \* the last pass of the loop
    silent,             \* every line read so far was noise only
    pre,                \* words of the lines read while _ready was false
    post,               \* words of the lines read while _ready was true
    heard,              \* words of the reconstructed lines
    dropped,            \* words of what the activation gate discarded
    kept,               \* words of what the gate kept and of the later lines
    held,               \* words held in bob when stop() was called, not read since
    raw,                \* the lines read in this session, as received
    plain,              \* every line of this session was plain text
    twin,               \* a second object, fed the same lines in another letter case
    activation_callback, \* calls made to self.activation_callback
    agent,              \* the LLMAgent: its history, its file, its last call
    script,             \* the main script of test.py: where it is, its need_r
    stream              \* the whisper_stream.WhisperStream and its two threads

vars == <<process, _stopped, _ready, activated, _char_buffer, bob,
          activation_phrase, need_activation, ret, feed, nread, last,
          silent, pre, post, heard, dropped, kept, held, raw, plain, twin,
          activation_callback, agent, script, stream>>

\* what no method of the object writes: the callback is stored at line 46
\* and called nowhere in detekt.py
apart == <<activation_callback, agent, script, stream>>

\* the detekt.WhisperStream object and what is observed of it
object ==
    <<process, _stopped, _ready, activated, _char_buffer, bob,
      activation_phrase, need_activation, ret, feed, nread, last, silent,
      pre, post, heard, dropped, kept, held, raw, plain, twin,
      activation_callback>>

Self ==
    [activation_phrase |-> activation_phrase,
     process           |-> process,
     activated         |-> activated,
     _char_buffer      |-> _char_buffer,
     bob               |-> bob,
     _stopped          |-> _stopped,
     _ready            |-> _ready]

SetSelf(s) ==
    /\ activation_phrase' = s.activation_phrase
    /\ process' = s.process
    /\ activated' = s.activated
    /\ _char_buffer' = s._char_buffer
    /\ bob' = s.bob
    /\ _stopped' = s._stopped
    /\ _ready' = s._ready

InitObject(phrase, need, lines) ==
    /\ activation_phrase = WhisperStream(phrase, need).activation_phrase
    /\ process = WhisperStream(phrase, need).process
    /\ activated = WhisperStream(phrase, need).activated
    /\ _char_buffer = WhisperStream(phrase, need)._char_buffer
    /\ bob = WhisperStream(phrase, need).bob
    /\ _stopped = WhisperStream(phrase, need)._stopped
    /\ _ready = WhisperStream(phrase, need)._ready
    /\ need_activation = need
    /\ ret = None
    /\ feed = lines
    /\ nread = 0
    /\ last = NoIteration
    /\ silent = TRUE
    /\ pre = {}
    /\ post = {}
    /\ heard = {}
    /\ dropped = {}
    /\ kept = {}
    /\ held = {}
    /\ raw = <<>>
    /\ plain = TRUE
    /\ activation_callback = 0
    /\ agent = LLMAgent(<<>>)
    /\ script = MainScript
    /\ stream = ThreadedStream(phrase)

\* the second object: self and the value its ask() returned, the text `from`
\* that its lines carry as `to`, and the phrases handed to the two constructors
Twin(phrase, need, from, to, arg) ==
    [self |-> WhisperStream(phrase, need), ret |-> None,
     from |-> from, to |-> to, arg |-> arg]

Init == \E phrase \in ConfigPhrases, need \in BOOLEAN :
            /\ InitObject(phrase, need, MainFeed)
            /\ twin = Twin(phrase, need, <<"-">>, <<"-">>, <<phrase, phrase>>)

\* the object is built to require activation and is fed the scenario lines
InitScenario ==
    \E phrase \in ConfigPhrases :
        /\ InitObject(phrase, TRUE, ScenarioFeed)
        /\ twin = Twin(phrase, TRUE, <<"-">>, <<"-">>, <<phrase, phrase>>)

\* an object without activation that reads the lines of LineFeed
InitLines ==
    \E phrase \in ConfigPhrases :
        /\ InitObject(phrase, FALSE, LineFeed)
        /\ twin = Twin(phrase, FALSE, <<"-">>, <<"-">>, <<phrase, phrase>>)

\* the main script has built its first streamer, which requires activation
InitMain ==
    \E phrase \in ConfigPhrases :
        /\ InitObject(phrase, TRUE, ScriptFeed)
        /\ twin = Twin(phrase, TRUE, <<"-">>, <<"-">>, <<phrase, phrase>>)

\* two objects; the second one receives the ready marker in upper case
InitReadyCase ==
    \E phrase \in ConfigPhrases, need \in BOOLEAN :
        /\ InitObject(phrase, need, MainFeed)
        /\ twin = Twin(phrase, need, READY_MARKER, Upper(READY_MARKER),
                       <<phrase, phrase>>)

\* two objects built with the phrase in any letter case; the second one
\* receives the phrase occurrences in another letter case
InitPhraseCase ==
    \E p1 \in PhraseCases, p2 \in PhraseCases, spoken \in PhraseCases \ {<<"h","i">>} :
        /\ InitObject(p1, TRUE, MainFeed)
        /\ twin = Twin(p2, TRUE, <<"h","i">>, spoken, <<p1, p2>>)

----------------------------------------------------------------------------
(* Actions.                                                                *)

\* ask() is called: the process is spawned and the loop entered
Ask ==
    /\ process # "running"
    /\ SetSelf(AskStart(Self))
    /\ ret' = None
    /\ last' = NoIteration
    /\ raw' = <<>>
    /\ plain' = TRUE
    /\ UNCHANGED <<need_activation, feed, nread, silent, pre, post, heard,
                   dropped, kept, held>>

\* the words dropped and kept by the activation gate in this pass
GateDropped(r) ==
    IF ~activated /\ r.gated # None
    THEN AlnumRuns(Lower(SubSeq(r.bob_in, 1, Len(r.bob_in) - Len(r.gated[1]))))
    ELSE {}

\* ask() is called and the process cannot be spawned: ask() returns None
AskSpawnFails ==
    /\ process # "running"
    /\ SetSelf(AskFailed(Self))
    /\ ret' = None
    /\ last' = Left("spawn", <<>>)
    /\ raw' = <<>>
    /\ plain' = TRUE
    /\ UNCHANGED <<need_activation, feed, nread, silent, pre, post, heard,
                   dropped, kept, held>>

\* the effect of a pass of the loop, r being LoopRead(Self, char); when
\* ask() returns, its finally clause stops the process
ReadLineReturn(char, r) ==
    /\ ret' = IF r.returned THEN r.g ELSE None
    /\ \E slow \in BOOLEAN, gone \in BOOLEAN :
          /\ gone => r.returned
          /\ SetSelf(IF gone THEN LoopRead(Exited(Self), char).self ELSE r.self)
          /\ last' =
               [op |-> "read", chunk |-> char, ready_before |-> _ready,
                activated_before |-> activated, cb_before |-> _char_buffer,
                bob_in |-> r.bob_in,
                gated |-> r.gated, words |-> r.words, g |-> r.g,
                sent |-> IF r.returned
                         THEN Finally(AtReturn(Self, gone), slow) ELSE <<>>,
                gone |-> gone]
    /\ heard' = heard \cup AlnumRuns(r.self._char_buffer)
    /\ dropped' = dropped \cup GateDropped(r)
    /\ kept' = IF ~activated /\ r.gated # None
               THEN AlnumRuns(r.gated[1])
               ELSE IF activated /\ need_activation
               THEN kept \cup AlnumRuns(Lower(char))
               ELSE kept

\* a line is read and processed; ask() returns when an utterance is ready
ReadLine(char) ==
    /\ process = "running"
    /\ ~_stopped
    /\ nread < MaxReads
    /\ ReadLineReturn(char, LoopRead(Self, char))
    /\ nread' = nread + 1
    /\ silent' = (silent /\ IsNoiseOnly(char))
    /\ pre' = IF _ready THEN pre ELSE pre \cup AlnumRuns(char)
    /\ post' = IF _ready THEN post \cup AlnumRuns(char) ELSE post
    /\ held' = held \ RealNorm(NoiseFilter(char))
    /\ raw' = raw \o char
    /\ plain' = (plain /\ IsPlain(char))
    /\ UNCHANGED <<need_activation, feed>>

\* the loop is left without a pass: ask() returns r.g and its finally
\* clause stops the process, which was in state `before`
LeaveLoop(op, before, r) ==
    /\ SetSelf(r.self)
    /\ ret' = r.g
    /\ \E slow \in BOOLEAN :
          last' = LeftGone(op, Finally(before, slow), before.process = "exited")
    /\ UNCHANGED <<need_activation, feed, nread, silent, pre, post, heard,
                   dropped, kept, held, raw, plain>>

\* readline() returns the empty string: the loop ends and ask() returns None
ReadEof ==
    /\ process = "running"
    /\ ~_stopped
    /\ \E gone \in BOOLEAN :
          LeaveLoop("eof", AtReturn(Self, gone), LoopExit(AtReturn(Self, gone)))

\* the transcription process has exited: the loop ends and ask() returns None
ProcessExit ==
    /\ process = "running"
    /\ ~_stopped
    /\ LeaveLoop("exit", Exited(Self), LoopExit(Exited(Self)))

\* readline() raises: the loop ends and ask() returns None
ReadError ==
    /\ process = "running"
    /\ ~_stopped
    /\ \E gone \in BOOLEAN :
          LeaveLoop("error", AtReturn(Self, gone),
                    LoopError(AtReturn(Self, gone)))

\* stop() is called while ask() runs: the loop sees the flag and ask()
\* returns None
Stop ==
    /\ process = "running"
    /\ ~_stopped
    /\ SetSelf(stop(Self))
    /\ ret' = None
    /\ \E slow \in BOOLEAN : last' = Left("stop", Signals(Self, slow))
    /\ held' = IF _ready /\ activated THEN RealNorm(bob) ELSE {}
    /\ UNCHANGED <<need_activation, feed, nread, silent, pre, post, heard,
                   dropped, kept, raw, plain>>

\* stop() is called while no ask() runs
StopIdle ==
    /\ process # "running"
    /\ SetSelf(stop(Self))
    /\ \E slow \in BOOLEAN : last' = Left("idle", Signals(Self, slow))
    /\ UNCHANGED <<need_activation, feed, nread, silent, pre, post, heard,
                   dropped, kept, held, raw, plain, ret>>

Next ==
    \/ Ask /\ UNCHANGED <<twin, apart>>
    \/ AskSpawnFails /\ UNCHANGED <<twin, apart>>
    \/ \E char \in feed : ReadLine(char) /\ UNCHANGED <<twin, apart>>
    \/ ReadEof /\ UNCHANGED <<twin, apart>>
    \/ ProcessExit /\ UNCHANGED <<twin, apart>>
    \/ ReadError /\ UNCHANGED <<twin, apart>>
    \/ Stop /\ UNCHANGED <<twin, apart>>
    \/ StopIdle /\ UNCHANGED <<twin, apart>>

Spec == Init /\ [][Next]_vars

SpecScenario == InitScenario /\ [][Next]_vars

\* sessions of an object that reads the lines of LineFeed
NextLines ==
    \/ Ask /\ UNCHANGED <<twin, apart>>
    \/ \E char \in feed : ReadLine(char) /\ UNCHANGED <<twin, apart>>
    \/ ReadEof /\ UNCHANGED <<twin, apart>>

SpecLines == InitLines /\ [][NextLines]_vars

\* test.py line 75: streamer.ask() is called
MainAsk ==
    /\ script.pc = "ask"
    /\ Ask
    /\ script' = [script EXCEPT !.pc = "listen"]
    /\ UNCHANGED <<twin, activation_callback, agent, stream>>

\* ask() reads a line; the script goes on when ask() returns
MainRead(char) ==
    /\ script.pc = "listen"
    /\ ReadLine(char)
    /\ script' = [script EXCEPT
                     !.pc = IF process' = "running" THEN "listen" ELSE "handle"]
    /\ UNCHANGED <<twin, activation_callback, agent, stream>>

\* ask() meets the end of the input and returns None
MainEof ==
    /\ script.pc = "listen"
    /\ ReadEof
    /\ script' = [script EXCEPT !.pc = "handle"]
    /\ UNCHANGED <<twin, activation_callback, agent, stream>>

\* test.py lines 20-51, text being a str
Handled(text, outcome) ==
    /\ script' = [script EXCEPT
                     !.pc = "construct",
                     !.handled = script.handled + 1,
                     !.shutdown = script.shutdown \/ IsStopCommand(text)]
    /\ agent' = IF IsStopCommand(text) THEN agent
                ELSE [sendUserMessage(agent, text, outcome) EXCEPT
                        !.called = TRUE,
                        !.user_message = text,
                        !.outcome = outcome,
                        !.before = agent.messages]

\* test.py lines 76-77: streamer.stop(), then handle_user_message(msg);
\* with msg None, text.lower() raises and the script ends
handle_user_message(outcome) ==
    /\ script.pc = "handle"
    /\ SetSelf(stop(Self))
    /\ IF ret = None
       THEN /\ script' = [script EXCEPT !.pc = "finished"]
            /\ agent' = agent
       ELSE Handled(ret[1], outcome)
    /\ UNCHANGED <<need_activation, ret, feed, nread, last, silent, pre, post,
                   heard, dropped, kept, held, raw, plain, twin,
                   activation_callback, stream>>

\* test.py lines 58-74: the loop goes round; a new agent loads the history
\* file and a new streamer is built with need_r, which is then set false
Construct ==
    /\ script.pc = "construct"
    /\ script.sessions < MaxSessions
    /\ \E phrase \in ConfigPhrases :
          SetSelf(WhisperStream(phrase, script.need_r))
    /\ need_activation' = script.need_r
    /\ script' = [script EXCEPT !.pc = "ask", !.need_r = FALSE,
                                !.sessions = script.sessions + 1]
    /\ agent' = [LLMAgent(agent.history_file) EXCEPT
                    !.called = agent.called,
                    !.user_message = agent.user_message,
                    !.outcome = agent.outcome,
                    !.before = agent.before]
    /\ ret' = None
    /\ nread' = 0
    /\ last' = NoIteration
    /\ silent' = TRUE
    /\ pre' = {}
    /\ post' = {}
    /\ heard' = {}
    /\ dropped' = {}
    /\ kept' = {}
    /\ held' = {}
    /\ raw' = <<>>
    /\ plain' = TRUE
    /\ activation_callback' = 0
    /\ UNCHANGED <<feed, twin, stream>>

NextMain ==
    \/ MainAsk
    \/ \E char \in feed : MainRead(char)
    \/ MainEof
    \/ \E outcome \in Outcomes : handle_user_message(outcome)
    \/ Construct

SpecMain == InitMain /\ [][NextMain]_vars

\* agent.sendUserMessage(user_message) is called and meets outcome
SendUserMessage(user_message, outcome) ==
    /\ Len(agent.messages) + 2 <= MaxMessages
    /\ agent' = [sendUserMessage(agent, user_message, outcome) EXCEPT
                    !.called = TRUE,
                    !.user_message = user_message,
                    !.outcome = outcome,
                    !.before = agent.messages]

NextAgent ==
    \E user_message \in UserMessages, outcome \in Outcomes :
        SendUserMessage(user_message, outcome)
            /\ UNCHANGED <<object, script, stream>>

SpecAgent == Init /\ [][NextAgent]_vars

\* main thread: start(); the reader of the session before has ended
StreamStart ==
    /\ stream.main = "idle"
    /\ stream.process # "running"
    /\ stream.thread \in {"none", "ended"}
    /\ stream' = ThreadedStart(stream)

\* main thread: stop() is called
StreamStop ==
    /\ stream.main = "idle"
    /\ stream' = StopEvent(stream)

\* main thread: stop() ends the process and clears the handle
StreamStopProcess ==
    /\ stream.main = "terminate"
    /\ stream' = StopProcess(stream)

\* main thread: stop() has waited for the reader, or for two seconds
StreamStopJoin ==
    /\ stream.main = "join"
    /\ stream' = StopJoin(stream)

\* the transcription process ends by itself
StreamProcessExit ==
    /\ stream.process = "running"
    /\ stream' = [stream EXCEPT !.process = "exited"]

\* reader thread: the loop condition looks at the stop event
ReaderLoopTest ==
    /\ stream.thread = "event"
    /\ stream' = LoopTest(stream)

\* reader thread: the loop condition looks at the handle
ReaderLoopProcessTest ==
    /\ stream.thread = "process"
    /\ stream' = LoopProcessTest(stream)

\* reader thread: the loop condition polls the process
ReaderLoopPoll ==
    /\ stream.thread = "poll"
    /\ stream' = LoopPoll(stream)

\* reader thread: select() returns; there is something to read while the
\* process has lines left to write or has closed its output
ReaderLoopSelect(readable) ==
    /\ stream.thread = "select"
    /\ readable => stream.nlines < MaxLines \/ stream.process # "running"
    /\ stream' = LoopSelect(stream, readable)

\* reader thread: readline() returns a line
ReaderLoopReadline(line) ==
    /\ stream.thread = "readline"
    /\ stream.nlines < MaxLines
    /\ stream' = LoopReadline(stream, line)

\* reader thread: readline() returns "", the process having closed its output
ReaderLoopEof ==
    /\ stream.thread = "readline"
    /\ stream.process # "running"
    /\ stream' = LoopReadline(stream, <<>>)

\* reader thread: the line is processed
ReaderLoopLine ==
    /\ stream.thread = "line"
    /\ stream' = LoopLine(stream)

\* reader thread: after the loop, the handle is looked at
ReaderExitTest ==
    /\ stream.thread = "exit_code"
    /\ stream' = ExitTest(stream)

\* reader thread: after the loop, the process is polled
ReaderExitPoll ==
    /\ stream.thread = "exit_poll"
    /\ stream' = ExitPoll(stream)

\* a step of the reader thread
Reader ==
    \/ ReaderLoopTest
    \/ ReaderLoopProcessTest
    \/ ReaderLoopPoll
    \/ \E readable \in BOOLEAN : ReaderLoopSelect(readable)
    \/ \E line \in StreamFeed : ReaderLoopReadline(line)
    \/ ReaderLoopEof
    \/ ReaderLoopLine
    \/ ReaderExitTest
    \/ ReaderExitPoll

NextStream ==
    \/ StreamStart /\ UNCHANGED <<object, agent, script>>
    \/ StreamStop /\ UNCHANGED <<object, agent, script>>
    \/ StreamStopProcess /\ UNCHANGED <<object, agent, script>>
    \/ StreamStopJoin /\ UNCHANGED <<object, agent, script>>
    \/ StreamProcessExit /\ UNCHANGED <<object, agent, script>>
    \/ ReaderLoopTest /\ UNCHANGED <<object, agent, script>>
    \/ ReaderLoopProcessTest /\ UNCHANGED <<object, agent, script>>
    \/ ReaderLoopPoll /\ UNCHANGED <<object, agent, script>>
    \/ \E readable \in BOOLEAN :
          ReaderLoopSelect(readable) /\ UNCHANGED <<object, agent, script>>
    \/ \E line \in StreamFeed :
          ReaderLoopReadline(line) /\ UNCHANGED <<object, agent, script>>
    \/ ReaderLoopEof /\ UNCHANGED <<object, agent, script>>
    \/ ReaderLoopLine /\ UNCHANGED <<object, agent, script>>
    \/ ReaderExitTest /\ UNCHANGED <<object, agent, script>>
    \/ ReaderExitPoll /\ UNCHANGED <<object, agent, script>>

\* the threaded stream is built with the phrase of the configuration
InitStream ==
    \E phrase \in ConfigPhrases :
        /\ InitObject(phrase, TRUE, MainFeed)
        /\ twin = Twin(phrase, TRUE, <<"-">>, <<"-">>, <<phrase, phrase>>)

\* the reader is a thread of its own: it is not held up for ever while it
\* has a step to take
SpecStream ==
    InitStream /\ [][NextStream]_vars
               /\ WF_vars(Reader /\ UNCHANGED <<object, agent, script>>)

\* the line the second object reads when the first one reads char
TwinLine(char) == Replace(char, twin.from, twin.to)

\* ask() is called on both objects
AskBoth ==
    /\ nread = 0
    /\ twin.self.process = "None"
    /\ Ask
    /\ twin' = [twin EXCEPT !.self = AskStart(twin.self), !.ret = None]

\* the second object after a pass of its loop, r being what LoopRead gave
TwinReturn(r) ==
    [twin EXCEPT !.self = r.self, !.ret = IF r.returned THEN r.g ELSE None]

\* both objects read their line
ReadBoth(char) ==
    /\ twin.self.process = "running"
    /\ ~twin.self._stopped
    /\ ReadLine(char)
    /\ twin' = TwinReturn(LoopRead(twin.self, TwinLine(char)))

NextTwin ==
    \/ AskBoth /\ UNCHANGED apart
    \/ \E char \in feed : ReadBoth(char) /\ UNCHANGED apart

SpecReadyCase == InitReadyCase /\ [][NextTwin]_vars

SpecPhraseCase == InitPhraseCase /\ [][NextTwin]_vars

----------------------------------------------------------------------------
(* Properties.                                                             *)

\* the number of positions of seq that hold w
Count(w, seq) == Cardinality({i \in 1..Len(seq) : seq[i] = w})

\* the normalized words of a text
NormWords(s) ==
    LET t == Tokenize(s) IN [i \in 1..Len(t) |-> normalize_word(t[i])]

\* C1: ask() never returns an utterance while _ready is false, and when
\* activation is required it never returns one while activated is false.
C1_NoUtteranceBeforeGates ==
    ret # None => (_ready /\ (need_activation => activated))

\* an utterance was returned by an object that requires activation
C1_Witness == ret # None /\ need_activation /\ _ready /\ activated

\* C2: the end-of-utterance rule fires exactly when the token list has at
\* least two tokens, ends with the Sentinel and holds a token that is not the
\* Sentinel; the utterance is then the non-Sentinel tokens in order joined by
\* single spaces and bob is emptied; otherwise nothing is returned and the
\* accumulated text is kept.
C2_BoundaryRule ==
    (last.op = "read" /\ last.words # None) =>
        LET w == last.words[1]
            fires == /\ Len(w) >= 2
                     /\ w[Len(w)] = BLANK_AUDIO
                     /\ \E k \in 1..Len(w) : w[k] # BLANK_AUDIO
        IN  /\ fires <=> (last.g # None)
            /\ fires => /\ Split(last.g[1], <<" ">>) = SelectSeq(w, NotBlank)
                        /\ bob = <<>>
                        /\ ret = last.g
            /\ ~fires => /\ ret = None
                         /\ Tokenize(bob) = w

\* the rule fired on a list holding two real tokens and a Sentinel
C2_Witness ==
    /\ last.op = "read"
    /\ last.words # None
    /\ last.g # None
    /\ Len(SelectSeq(last.words[1], NotBlank)) >= 2
    /\ bob = <<>>

\* C3: when every line read holds only noise annotations, Sentinel markers
\* and whitespace, ask() never returns an utterance.
C3_NoUtteranceOnNoise == silent => ret = None

\* C4: no word of a line read while _ready was false appears in an utterance,
\* unless a line read after readiness holds it too.
C4_PreReadyDiscarded ==
    ret # None =>
        (AlnumRuns(Lower(ret[1])) \cap LowerAll(pre)) \subseteq LowerAll(post)

\* C5: an utterance holds only words of the reconstructed current line, each
\* no more often than the line holds it.
C5_OnlyCurrentLine ==
    ret # None =>
        LET u == NormWords(ret[1])
            l == NormWords(NoiseFilter(_char_buffer))
        IN  \A i \in 1..Len(u) : Count(u[i], u) <= Count(u[i], l)

\* C7: every word of an utterance has the text and the letter case it had in
\* the lines received.
C7_CasingPreserved ==
    ret # None => AlnumRuns(ret[1]) \subseteq (heard \cup AlnumRuns(BLANK_AUDIO))

\* C8: on finding the phrase the gate sets activated and leaves in bob the
\* text after the last occurrence of the phrase in the lower-cased buffer;
\* neither the phrase nor what preceded it gives a token to an utterance.
C8_GateDiscardsPrefix ==
    /\ (/\ last.op = "read"
        /\ need_activation
        /\ last.ready_before
        /\ ~last.activated_before
        /\ Contains(Lower(last.bob_in), activation_phrase))
       => /\ activated
          /\ LET b == Lower(last.bob_in)
                 at == RFind(b, activation_phrase)
             IN  last.gated = Some(SubSeq(b, at + Len(activation_phrase), Len(b)))
    /\ (need_activation /\ ret # None)
       => (AlnumRuns(Lower(ret[1])) \cap dropped) \subseteq kept

\* C6: with activation required and the ready marker received, a line that
\* holds the phrase, then real words, then one annotation of the noise list
\* makes ask() return exactly the words.
C6_EndToEnd ==
    (/\ last.op = "read"
     /\ need_activation
     /\ last.ready_before
     /\ ~last.activated_before
     /\ \E a \in Range(NoiseMarkers) : last.chunk = Scenario(a))
    => ret = Some(<<"t","h","e","r","e"," ","f","r","i","e","n","d">>)

\* C9: the object fed the ready marker in upper case becomes ready at the
\* same line as the object fed the marker as written, and returns the same.
C9_ReadyCaseInsensitive ==
    /\ twin.self._ready = _ready
    /\ twin.ret = ret

\* C9, amended: the ready marker is matched case-sensitively; the object fed
\* the marker in upper case never becomes ready and returns nothing, while
\* the object whose line buffer holds the marker as written is ready.
C9_ReadyCaseSensitive ==
    /\ ~twin.self._ready
    /\ twin.ret = None
    /\ Contains(_char_buffer, READY_MARKER) => _ready

\* the upper-case marker was read by the second object, the first is ready
C9_Witness ==
    /\ _ready
    /\ ~twin.self._ready
    /\ Contains(twin.self._char_buffer, Upper(READY_MARKER))

\* C10: two objects whose lines differ only in the letter case of the phrase
\* occurrences are activated at the same line, whatever the letter case of
\* the phrase each was built with.
C10_PhraseCaseInsensitive ==
    /\ twin.self.activated = activated
    /\ twin.self._ready = _ready

\* both objects are activated, the phrase being configured and spoken in
\* different letter cases
C10_Witness ==
    /\ activated
    /\ twin.self.activated
    /\ twin.arg[1] # twin.arg[2]
    /\ twin.to # twin.arg[2]
    /\ Contains(twin.self._char_buffer, twin.to)
    /\ Contains(_char_buffer, twin.from)


\* C11: the pass that finds the ready marker while the engine is not ready
\* sets _ready, leaves bob empty (neither the marker nor the text before it)
\* and returns no utterance, whatever else the text holds.
C11_ReadyPassSilent ==
    (last.op = "read" /\ ~last.ready_before
        /\ Contains(last.bob_in, READY_MARKER))
    => /\ _ready
       /\ bob = <<>>
       /\ last.g = None
       /\ last.words = None
       /\ ret = None

\* the marker arrives in a text that also holds the activation phrase, real
\* words and a closing annotation, on which the boundary rule would fire
C11_Witness ==
    /\ last.op = "read"
    /\ ~last.ready_before
    /\ Contains(last.bob_in, READY_MARKER)
    /\ Contains(Lower(last.bob_in), activation_phrase)
    /\ BoundaryFires(Tokenize(NoiseFilter(last.bob_in)))
    /\ _ready
    /\ ret = None


\* C12: when stop() is called while ask() runs, ask() returns no utterance,
\* and the real words bob held at that moment appear in no utterance of a
\* later ask() unless they were read again.
C12_StopDiscards ==
    /\ (last.op = "stop" => ret = None)
    /\ (ret # None => RealNorm(ret[1]) \cap held = {})


\* C13: after any chunk the line buffer holds at most one carriage return.
C13_AtMostOneCR == Count(CR, _char_buffer) <= 1


\* C14: a chunk with the line-clear code whose content T after the last clear
\* code has no carriage return leaves the buffer equal to line-start + T, the
\* line-start being the old buffer's text before its last carriage return;
\* neither the chunk's text before the last clear code nor the old buffer's
\* text after its last carriage return has a part in it.
C14_ClearAppends ==
    (last.op = "read"
        /\ Contains(ChunkOf(last.chunk), clear_code)
        /\ ~Contains(AfterLastClear(ChunkOf(last.chunk)), carriage_return))
    => _char_buffer
         = LineStart(last.cb_before) \o AfterLastClear(ChunkOf(last.chunk))

\* such a chunk, with text before its last clear code, arrives when the old
\* buffer has text on both sides of its last carriage return
C14_Witness ==
    /\ last.op = "read"
    /\ Contains(ChunkOf(last.chunk), clear_code)
    /\ ~Contains(AfterLastClear(ChunkOf(last.chunk)), carriage_return)
    /\ AfterLastClear(ChunkOf(last.chunk)) # <<>>
    /\ RFind(ChunkOf(last.chunk), clear_code) > 1
    /\ LineStart(last.cb_before) # <<>>
    /\ CurrentLine(last.cb_before) # <<>>
    /\ _char_buffer
         = LineStart(last.cb_before) \o AfterLastClear(ChunkOf(last.chunk))

\* C15: when the text of a session without line-clear codes ends with a
\* carriage return, a text X, a second carriage return and a shorter text Y,
\* in one chunk or cut over several, the current line of the buffer is Y.
C15_OverwriteShorter ==
    (last.op = "read"
        /\ ~Contains(raw, clear_code)
        /\ Count(CR, raw) >= 2
        /\ Len(CurrentLine(ChunkOf(raw)))
             < Len(CurrentLine(LineStart(ChunkOf(raw)))))
    => CurrentLine(_char_buffer) = CurrentLine(ChunkOf(raw))

\* X and the shorter Y have arrived in different chunks
C15_Witness ==
    /\ last.op = "read"
    /\ ~Contains(raw, clear_code)
    /\ Count(CR, raw) >= 2
    /\ Count(CR, last.chunk) = 1
    /\ CurrentLine(ChunkOf(raw)) # <<>>
    /\ Len(CurrentLine(ChunkOf(raw)))
         < Len(CurrentLine(LineStart(ChunkOf(raw))))
    /\ CurrentLine(_char_buffer) = CurrentLine(ChunkOf(raw))

\* C16: while every chunk of the session is plain text, the line buffer is
\* the text received with its newlines removed, however it was cut.
C16_PlainConcat ==
    (last.op = "read" /\ plain) => _char_buffer = SelectSeq(raw, IsNotLF)

\* several plain chunks, one of them ending in a newline, have been read
C16_Witness ==
    /\ last.op = "read"
    /\ plain
    /\ Len(raw) > Len(last.chunk)
    /\ Contains(raw, <<LF>>)
    /\ Contains(_char_buffer, <<"a","b","c">>)


\* C17: _ready never goes from true to false, whatever is read and however
\* often stop() and ask() are called on the object.
C17_ReadyMonotonic == [][_ready => _ready']_vars

\* ask() has been called again on an object that was ready and stopped
C17_Witness ==
    /\ _ready
    /\ process = "running"
    /\ last.op = "none"
    /\ ~_stopped


\* C18: activated never goes from true to false, so it becomes true at most
\* once; and in a pass that starts activated the gate hands on the whole of
\* bob, even when the activation phrase occurs in it.
C18_GateOnce ==
    /\ [][activated => activated']_vars
    /\ []((need_activation /\ last.op = "read" /\ last.activated_before
              /\ last.gated # None)
          => last.gated = Some(last.bob_in))

\* an activated object that requires activation reads the phrase again
C18_Witness ==
    /\ need_activation
    /\ last.op = "read"
    /\ last.ready_before
    /\ last.activated_before
    /\ Contains(Lower(last.bob_in), activation_phrase)
    /\ last.gated = Some(last.bob_in)


\* C19: when readline() gives the empty string or the process has exited,
\* the loop is left and ask() returns no utterance, with the stream stopped,
\* even when bob holds real words.
C19_EndOfInput ==
    last.op \in {"eof", "exit"}
    => /\ ret = None
       /\ _stopped
       /\ process # "running"

\* the input ends while real words of an activated, ready object are in bob
C19_Witness ==
    /\ last.op = "eof"
    /\ _ready
    /\ activated
    /\ RealWords(bob) # <<>>
    /\ ret = None

\* C20: when readline() raises, ask() returns no utterance and the stream is
\* stopped, and the step after the failure is never a read of that session:
\* it can only be a new ask() or a stop() outside ask().
C20_ReadErrorEnds ==
    /\ [](last.op = "error"
            => (ret = None /\ _stopped /\ process # "running"))
    /\ [][last.op = "error" => last'.op \in {"none", "spawn", "idle"}]_vars

\* a read fails after lines were read, while further reads were possible
C20_Witness ==
    /\ last.op = "error"
    /\ nread >= 1
    /\ nread < MaxReads
    /\ RealWords(bob) # <<>>
    /\ ret = None
    /\ _stopped


C22_FilterIdempotent ==
    (last.op = "read" /\ last.gated # None)
    => /\ NoiseFilter(NoiseFilter(last.gated[1])) = NoiseFilter(last.gated[1])
       /\ Tokenize(NoiseFilter(NoiseFilter(last.gated[1])))
            = Tokenize(NoiseFilter(last.gated[1]))

\* the filter replaced an annotation in a text that already held the
\* Sentinel of an earlier pass
C22_Witness ==
    /\ last.op = "read"
    /\ last.gated # None
    /\ Contains(last.gated[1], BLANK_AUDIO)
    /\ NoiseFilter(last.gated[1]) # last.gated[1]
    /\ NoiseFilter(NoiseFilter(last.gated[1])) = NoiseFilter(last.gated[1])


\* C23: the activation callback has been called exactly once when the
\* object has detected the activation phrase, and never before.
C23_CallbackOnce ==
    /\ ~activated => activation_callback = 0
    /\ (need_activation /\ activated) => activation_callback = 1


\* C24: a chunk with the line-clear code whose content E after the last
\* clear code holds a carriage return leaves the buffer equal to
\* line-start + carriage return + R: R is the rest of E after a leading
\* carriage return, else the text after E's last carriage return; the
\* chunk's text before the last clear code has no part in it.
C24_ClearOverwrites ==
    (last.op = "read"
        /\ Contains(ChunkOf(last.chunk), clear_code)
        /\ Contains(AfterLastClear(ChunkOf(last.chunk)), carriage_return))
    => _char_buffer
         = LineStart(last.cb_before) \o carriage_return
             \o Remainder(AfterLastClear(ChunkOf(last.chunk)))

\* such a chunk, with text before its last clear code and an E that starts
\* with a carriage return, arrives when the old buffer has a current line
C24_Witness ==
    /\ last.op = "read"
    /\ RFind(ChunkOf(last.chunk), clear_code) > 1
    /\ StartsWith(AfterLastClear(ChunkOf(last.chunk)), carriage_return)
    /\ Contains(last.cb_before, carriage_return)
    /\ CurrentLine(last.cb_before) # <<>>
    /\ _char_buffer
         = LineStart(last.cb_before) \o carriage_return
             \o Remainder(AfterLastClear(ChunkOf(last.chunk)))

\* C25: a chunk with a carriage return and no line-clear code leaves the
\* buffer equal to line-start + carriage return + the chunk's last piece,
\* the line-start being the old buffer's text before its last carriage
\* return, and empty when the old buffer has none.
C25_ReturnOverwrites ==
    (last.op = "read"
        /\ ~Contains(ChunkOf(last.chunk), clear_code)
        /\ Contains(ChunkOf(last.chunk), carriage_return))
    => _char_buffer
         = LineStart(last.cb_before) \o carriage_return
             \o CurrentLine(ChunkOf(last.chunk))

\* a chunk of three pieces arrives when the old buffer has a current line
C25_Witness ==
    /\ last.op = "read"
    /\ ~Contains(ChunkOf(last.chunk), clear_code)
    /\ Count(CR, last.chunk) = 2
    /\ Contains(last.cb_before, carriage_return)
    /\ CurrentLine(last.cb_before) # <<>>
    /\ _char_buffer
         = LineStart(last.cb_before) \o carriage_return
             \o CurrentLine(ChunkOf(last.chunk))


C26_StopCommandShutsDown ==
    /\ script.shutdown => script.pc \notin {"ask", "listen"}
    /\ agent.called => ~IsStopCommand(agent.user_message)

\* C27: an utterance returned to the main script after it has handled a
\* message comes from a session in which the activation phrase was read.
C27_ActivationRearmed ==
    (script.handled >= 1 /\ script.pc = "handle" /\ ret # None)
    => Contains(Lower(raw), activation_phrase)

\* the first k lines as _process_line collects them: each one stripped and
\* followed by a space, the empty ones left out
RECURSIVE Collected(_, _)
Collected(lines, k) ==
    IF k = 0 THEN <<>>
    ELSE Collected(lines, k - 1)
           \o (IF Strip(lines[k]) = <<>> THEN <<>>
               ELSE Strip(lines[k]) \o <<" ">>)

\* the lines with which the phrase is in what has been collected
Activating(lines, phrase) ==
    {k \in 1..Len(lines) : Contains(Lower(Collected(lines, k)), phrase)}

\* the line that completes the phrase
ActivatingLine(lines, phrase) ==
    CHOOSE k \in Activating(lines, phrase) :
        \A j \in Activating(lines, phrase) : k <= j

\* the text, in its own letter case, that follows the first occurrence of
\* the phrase in what has been collected
Following(text, phrase) ==
    Strip(SubSeq(text, Find(Lower(text), phrase) + Len(phrase), Len(text)))

\* the non-empty ones of lines from..Len(lines), stripped
RECURSIVE Spoken(_, _)
Spoken(lines, from) ==
    IF from > Len(lines) THEN <<>>
    ELSE (IF Strip(lines[from]) = <<>> THEN <<>> ELSE <<Strip(lines[from])>>)
           \o Spoken(lines, from + 1)

\* what stream_callback is to have received once lines have been processed
Expected(lines, phrase) ==
    IF Activating(lines, phrase) = {} THEN <<>>
    ELSE (IF Following(Collected(lines, ActivatingLine(lines, phrase)),
                       phrase) = <<>>
          THEN <<>>
          ELSE <<Following(Collected(lines, ActivatingLine(lines, phrase)),
                           phrase)>>)
           \o Spoken(lines, ActivatingLine(lines, phrase) + 1)

AskReturned ==
    \/ last.op \in {"eof", "exit", "error", "stop", "spawn"}
    \/ last.op = "read" /\ ret # None

\* C31 as stated: when an ask() call that started a session returns,
\* _stopped is true and the process handle is cleared.
C31_HandleCleared ==
    AskReturned => _stopped /\ process = "None"

\* C31: when an ask() call that started a session returns, _stopped is true
\* and no transcription process is running: the handle is cleared, unless
\* the process had exited by itself before the stream was stopped, and then
\* the handle is that of the exited process and nothing was sent to it.
C31_AskLeavesStopped ==
    AskReturned =>
        /\ _stopped
        /\ process = (IF last.gone THEN "exited" ELSE "None")
        /\ last.gone => last.sent = <<>>
        /\ last.op \in {"stop", "spawn"} => ~last.gone
        /\ last.op = "exit" => last.gone

\* ask() returned an utterance and its finally clause ended the process
C31_Witness ==
    /\ last.op = "read"
    /\ ret # None
    /\ last.sent # <<>>
    /\ _stopped
    /\ process = "None"

\* C32: an utterance returned by ask() is not empty and does not contain
\* the Sentinel text "[BLANK_AUDIO]", whatever lines were read, noise
\* annotations written next to a word or next to each other included.
C32_NoSentinelInUtterance ==
    ret # None => ret[1] # <<>> /\ ~Contains(ret[1], BLANK_AUDIO)

====
